---------------------------- MODULE Spec2Model ----------------------------
(***************************************************************************)
(* Model of ch6-discovery/string-service/transport/http.go: the HTTP       *)
(* transport of the string service.  MakeHttpHandler builds a gorilla/mux  *)
(* route table with three routes; two of them are go-kit HTTP servers that *)
(* run decode -> endpoint -> encode and send every failure to encodeError. *)
(*                                                                         *)
(* Strings that are JSON-encoded (error messages, response fields) are     *)
(* sequences of atoms: an atom is either one of the characters the JSON    *)
(* encoder escapes, or a run of characters it copies unchanged.  A         *)
(* response body is the sequence of atoms written to the ResponseWriter.   *)
(* A URL path is the sequence of its segments: "/op//4" is                 *)
(* <<"op", "", "4">>, "/health" is <<"health">>, "/" is <<"">>.            *)
(*                                                                         *)
(* The ResponseWriter is assumed usable: Write never fails.  The endpoints *)
(* are collaborators passed to MakeHttpHandler; each call returns any      *)
(* value or any error.                                                     *)
(***************************************************************************)
EXTENDS Naturals, Sequences, FiniteSets, TLC

\* ------------------------------------------------------------------ bounds
\* number of requests in flight at once
NumCalls == 2
\* longest URL path, in segments
MaxSegs == 4

\* ------------------------------------------------------- program constants
StatusOK == 200
StatusMovedPermanently == 301
StatusNotFound == 404
StatusMethodNotAllowed == 405
StatusInternalServerError == 500

\* ------------------------------------------------------------------ errors
NoError == [id |-> "nil", msg |-> <<>>]

\* var ErrorBadRequest = errors.New("invalid request parameter")
ErrorBadRequest == [id |-> "ErrorBadRequest", msg |-> <<"invalid request parameter">>]

\* what json.Marshal reports for a value of a type it cannot encode
UnsupportedTypeError ==
    [id |-> "json.UnsupportedTypeError", msg |-> <<"json: unsupported type: chan int">>]

\* ------------------------------------------------------------------- JSON
QUOTE == "\""
BACKSLASH == "\\"

\* atoms standing for characters a TLA+ string cannot hold: the control
\* character U+0001, the line and paragraph separators, the replacement
\* character U+FFFD, and a byte that is not valid UTF-8
SOH == "U+0001"
LINE_SEP == "U+2028"
PARA_SEP == "U+2029"
REPLACEMENT == "U+FFFD"
INVALID_BYTE == "0xFF"

\* json.Encoder inside a string (SetEscapeHTML is on by default): the quote,
\* the backslash, the control characters, <, > and &, U+2028 and U+2029 are
\* written as escapes, a byte that is not valid UTF-8 as the escape of
\* U+FFFD, and everything else is copied
EscapeAtom(a) ==
    CASE a = QUOTE        -> "\\\""
      [] a = BACKSLASH    -> "\\\\"
      [] a = "\n"         -> "\\n"
      [] a = "\r"         -> "\\r"
      [] a = "\t"         -> "\\t"
      [] a = SOH          -> "\\u0001"
      [] a = "<"          -> "\\u003c"
      [] a = ">"          -> "\\u003e"
      [] a = "&"          -> "\\u0026"
      [] a = LINE_SEP     -> "\\u2028"
      [] a = PARA_SEP     -> "\\u2029"
      [] a = INVALID_BYTE -> "\\ufffd"
      [] OTHER            -> a

EscapeString(s) == [i \in 1..Len(s) |-> EscapeAtom(s[i])]

\* A Go value as the encoder sees it:
\*   kind "object": a struct or map with one string member  {field: text}
\*   kind "bool"  : a struct with one boolean member         {field: b}
\*   kind "chan"  : a value of a type encoding/json does not support
\*   kind "nil"   : the nil interface value
ObjectValue(f, s) == [kind |-> "object", field |-> f, text |-> s, b |-> FALSE]
BoolValue(f, x)   == [kind |-> "bool", field |-> f, text |-> <<>>, b |-> x]
ChanValue         == [kind |-> "chan", field |-> "", text |-> <<>>, b |-> FALSE]
NoValue           == [kind |-> "nil", field |-> "", text |-> <<>>, b |-> FALSE]

\* json.Marshal: the encoded bytes, or an error and no bytes
Marshal(v) ==
    CASE v.kind = "object" ->
            [err |-> NoError,
             bytes |-> <<"{", QUOTE, v.field, QUOTE, ":", QUOTE>>
                          \o EscapeString(v.text) \o <<QUOTE, "}">>]
      [] v.kind = "bool" ->
            [err |-> NoError,
             bytes |-> <<"{", QUOTE, v.field, QUOTE, ":",
                         IF v.b THEN "true" ELSE "false", "}">>]
      [] v.kind = "nil" -> [err |-> NoError, bytes |-> <<"null">>]
      [] OTHER -> [err |-> UnsupportedTypeError, bytes |-> <<>>]

\* ------------------------------------------------------ http.ResponseWriter
NoHeader == [ct |-> "", loc |-> <<>>]

\* a fresh ResponseWriter: nothing set, nothing sent
NewWriter ==
    [header |-> NoHeader, wroteHeader |-> FALSE, status |-> 0,
     sent |-> NoHeader, body |-> <<>>]

\* w.Header().Set("Content-Type", ct)
SetContentType(w, ct) == [w EXCEPT !.header.ct = ct]

\* w.Header().Set("Location", p)
SetLocation(w, p) == [w EXCEPT !.header.loc = p]

\* w.WriteHeader(code): the first call sends the status line and the headers
\* as they are now; a later call changes nothing
WriteHeader(w, code) ==
    IF w.wroteHeader THEN w
    ELSE [w EXCEPT !.wroteHeader = TRUE, !.status = code, !.sent = w.header]

\* w.Write(bytes): sends the header with status 200 first if none was sent
Write(w, bytes) ==
    LET h == WriteHeader(w, StatusOK)
    IN  [h EXCEPT !.body = h.body \o bytes]

\* Encode as an encoder that streams would behave: the opening brace is on the
\* wire before the value's type is found unsupported
EncodeStreaming(w, v) ==
    LET m == Marshal(v)
    IN  IF m.err # NoError
        THEN [w |-> Write(w, <<"{">>), err |-> m.err]
        ELSE [w |-> Write(w, m.bytes \o <<"\n">>), err |-> NoError]

\* json.NewEncoder(w).Encode(v): marshals v into a buffer, and only when that
\* succeeded writes the buffer and a newline to w
Encode(w, v) ==
    LET m == Marshal(v)
    IN  IF m.err # NoError
        THEN [w |-> w, err |-> m.err]
        ELSE [w |-> Write(w, m.bytes \o <<"\n">>), err |-> NoError]

\* ------------------------------------------------- decoders and encoders
\* the names of the path variables of the operation route
VarNames == {"type", "a", "b"}

NoVars == [n \in {} |-> ""]

NoRequest == [type |-> "nil", RequestType |-> "", A |-> "", B |-> ""]

\* endpoint.HealthRequest{}
HealthRequest == [type |-> "HealthRequest", RequestType |-> "", A |-> "", B |-> ""]

\* endpoint.StringRequest{RequestType: t, A: a, B: b}
StringRequest(t, a, b) == [type |-> "StringRequest", RequestType |-> t, A |-> a, B |-> b]

\* decodeStringRequest without the check of "b": a missing b reads as ""
decodeStringRequestNoCheckB(vars) ==
    IF "type" \notin DOMAIN vars THEN [request |-> NoRequest, err |-> ErrorBadRequest]
    ELSE IF "a" \notin DOMAIN vars THEN [request |-> NoRequest, err |-> ErrorBadRequest]
    ELSE [request |-> StringRequest(vars["type"], vars["a"],
                                    IF "b" \in DOMAIN vars THEN vars["b"] ELSE ""),
          err |-> NoError]

\* decodeStringRequest with A and B filled from each other's variable
decodeStringRequestSwapped(vars) ==
    IF VarNames \subseteq DOMAIN vars
    THEN [request |-> StringRequest(vars["type"], vars["b"], vars["a"]), err |-> NoError]
    ELSE [request |-> NoRequest, err |-> ErrorBadRequest]

\* decodeStringRequest: vars is mux.Vars(r); each of "type", "a", "b" is looked
\* up in turn and a missing one ends the decoding with ErrorBadRequest
decodeStringRequest(vars) ==
    IF "type" \notin DOMAIN vars THEN [request |-> NoRequest, err |-> ErrorBadRequest]
    ELSE IF "a" \notin DOMAIN vars THEN [request |-> NoRequest, err |-> ErrorBadRequest]
    ELSE IF "b" \notin DOMAIN vars THEN [request |-> NoRequest, err |-> ErrorBadRequest]
    ELSE [request |-> StringRequest(vars["type"], vars["a"], vars["b"]),
          err |-> NoError]

\* decodeHealthCheckRequest refusing a request that carries a body
decodeHealthCheckRequestStrict(r) ==
    IF r.body # "" THEN [request |-> NoRequest, err |-> ErrorBadRequest]
    ELSE [request |-> HealthRequest, err |-> NoError]

\* decodeHealthCheckRequest: reads nothing of the request r
decodeHealthCheckRequest(r) == [request |-> HealthRequest, err |-> NoError]

\* encodeStringResponse with the error encoder's spelling of the content type
encodeStringResponseSpaced(w, response) ==
    Encode(SetContentType(w, "application/json; charset=utf-8"), response)

\* encodeStringResponse: sets the content type, then encodes the response;
\* the encoder's error is the function's result
encodeStringResponse(w, response) ==
    Encode(SetContentType(w, "application/json;charset=utf-8"), response)

\* encodeError with a case for ErrorBadRequest in its switch
encodeErrorWithBadRequestCase(err, w) ==
    LET w1 == SetContentType(w, "application/json; charset=utf-8")
        w2 == WriteHeader(w1, IF err = ErrorBadRequest THEN 400
                              ELSE StatusInternalServerError)
    IN  Encode(w2, ObjectValue("error", err.msg)).w

\* encodeError: sets the content type, writes the status of the switch's only
\* branch (default), then encodes map{"error": err.Error()}; the encoder's
\* result is dropped
encodeError(err, w) ==
    LET w1 == SetContentType(w, "application/json; charset=utf-8")
        w2 == WriteHeader(w1, StatusInternalServerError)
    IN  Encode(w2, ObjectValue("error", err.msg)).w

\* ---------------------------------------------------------------- routing
Lit(s) == [lit |-> TRUE, s |-> s]
Var(n) == [lit |-> FALSE, s |-> n]

\* the route table with the Methods("GET") of the health route left out
MakeHttpHandlerHealthAnyMethod ==
    << [methods |-> {"POST"}, tpl |-> <<Lit("op"), Var("type"), Var("a"), Var("b")>>,
        handler |-> "op"],
       [methods |-> {}, tpl |-> <<Lit("metrics")>>, handler |-> "metrics"],
       [methods |-> {}, tpl |-> <<Lit("health")>>, handler |-> "health"] >>

\* MakeHttpHandler's route table, in registration order.  An empty set of
\* methods is a route without a Methods matcher: it takes every method.
MakeHttpHandler ==
    << [methods |-> {"POST"}, tpl |-> <<Lit("op"), Var("type"), Var("a"), Var("b")>>,
        handler |-> "op"],
       [methods |-> {}, tpl |-> <<Lit("metrics")>>, handler |-> "metrics"],
       [methods |-> {"GET"}, tpl |-> <<Lit("health")>>, handler |-> "health"] >>

\* the path template of a route against a path: a literal segment matches
\* itself, a variable {name} matches [^/]+, any non-empty segment
PathMatches(tpl, p) ==
    /\ Len(tpl) = Len(p)
    /\ \A i \in 1..Len(tpl) : IF tpl[i].lit THEN p[i] = tpl[i].s ELSE p[i] # ""

MethodMatches(route, m) == route.methods = {} \/ m \in route.methods

\* the variables a matching template extracts from the path
ExtractVars(tpl, p) ==
    LET idx == {i \in 1..Len(tpl) : ~tpl[i].lit}
    IN  [n \in {tpl[i].s : i \in idx} |-> p[CHOOSE i \in idx : tpl[i].s = n]]

\* mux's cleanPath: path.Clean on the rooted path (empty and "." segments go,
\* ".." takes the segment before it along), the trailing slash put back
RECURSIVE CleanStack(_, _)
CleanStack(p, n) ==
    IF n = 0 THEN <<>>
    ELSE LET s == CleanStack(p, n - 1)
             x == p[n]
         IN  CASE x = "" \/ x = "." -> s
               [] x = ".." -> IF s = <<>> THEN s ELSE SubSeq(s, 1, Len(s) - 1)
               [] OTHER -> Append(s, x)

\* the router with SkipClean(true): the path is matched as it came
cleanPathSkipped(p) == p

cleanPath(p) ==
    IF p = <<>> THEN <<"">>
    ELSE LET np == CleanStack(p, Len(p))
         IN  IF np = <<>> THEN <<"">>
             ELSE IF p[Len(p)] = "" THEN Append(np, "") ELSE np

\* mux Router.Match over the routes in order: the first route whose method and
\* path both match wins; failing that, a route whose path matched but whose
\* method did not makes the answer "method not allowed"; else "not found"
RouterMatch(rts, m, p) ==
    LET full == {i \in 1..Len(rts) : MethodMatches(rts[i], m) /\ PathMatches(rts[i].tpl, p)}
        path == {i \in 1..Len(rts) : PathMatches(rts[i].tpl, p)}
    IN  IF full # {}
        THEN LET i == CHOOSE i \in full : \A j \in full : i <= j
             IN  [handler |-> rts[i].handler, vars |-> ExtractVars(rts[i].tpl, p)]
        ELSE IF path # {}
        THEN [handler |-> "methodNotAllowed", vars |-> NoVars]
        ELSE [handler |-> "notFound", vars |-> NoVars]

\* http.NotFoundHandler: http.Error(w, "404 page not found", 404)
NotFound(w) ==
    Write(WriteHeader(SetContentType(w, "text/plain; charset=utf-8"), StatusNotFound),
          <<"404 page not found", "\n">>)

\* mux's methodNotAllowed handler: the status and nothing else
MethodNotAllowed(w) == WriteHeader(w, StatusMethodNotAllowed)

\* the router's answer to a path that cleanPath changes
Redirect(w, p) == WriteHeader(SetLocation(w, p), StatusMovedPermanently)

\* promhttp.Handler(): the exposition document, whatever the method
MetricsHandler(w) ==
    Write(SetContentType(w, "text/plain; version=0.0.4; charset=utf-8"), <<"# metrics", "\n">>)

\* ------------------------------------------------------------------ inputs
Calls == 1..NumCalls

Methods == {"GET", "POST", "PUT"}

Segments == {"", ".", "..", "op", "health", "metrics", "add", "3", "4"}

\* the paths of n segments; a request's path has at most MaxSegs of them
\* (none at all is the empty path "")
Paths(n) == [1..n -> Segments]

\* what else a request carries: its body, query string and headers
Bodies == {"", "junk"}

\* the values an endpoint may return
Values ==
    { ObjectValue("result", <<"7">>),
      ObjectValue("result", <<"a", QUOTE, "<", "b", BACKSLASH, "&", ">">>),
      ObjectValue("result", <<"{x}", "\n", "\t", "\r", SOH, LINE_SEP, PARA_SEP,
                              INVALID_BYTE, REPLACEMENT>>),
      BoolValue("status", TRUE),
      ChanValue,
      NoValue }

\* the errors an endpoint may return
EndpointErrors ==
    { [id |-> "ErrDivideByZero", msg |-> <<"division by zero">>],
      [id |-> "ErrQuoted", msg |-> <<"bad ", QUOTE, "op", QUOTE, " ", "<", "&", ">">>],
      [id |-> "ErrLines", msg |-> <<"line1", "\n", "line2", "\t", INVALID_BYTE, "\r", SOH,
                                    LINE_SEP, PARA_SEP>>],
      ErrorBadRequest }

\* (response, error) as an endpoint returns it: a value (nil included) and no
\* error, no value and an error, or a value together with an error
EndpointOutcomes ==
    {[response |-> v, err |-> NoError] : v \in Values}
        \cup {[response |-> NoValue, err |-> e] : e \in EndpointErrors}
        \cup {[response |-> BoolValue("status", TRUE), err |-> e] : e \in {ErrorBadRequest}}

\* the route variables a request may carry when a handler is called with it
\* directly (mux.SetURLVars), any of the three names present or absent
VarValues == {"add", "op"}
AnyVars == UNION {[D -> VarValues] : D \in SUBSET VarNames}

\* the requests of the concurrent runs
ConcRequests ==
    { <<"POST", <<"op", "add", "3", "4">> >>,
      <<"POST", <<"op", "health", "4", "4">> >>,
      <<"GET", <<"health">> >>,
      <<"GET", <<"metrics">> >>,
      <<"POST", <<"op", "", "4">> >>,
      <<"GET", <<"add">> >> }

\* ------------------------------------------------------------------- state
VARIABLES
    routes,     \* the router's route table, built by MakeHttpHandler
    pc,         \* per call: idle, decode, dispatch, encode, encodeError, done
    req,        \* per call: the *http.Request (method, path, body, route variables);
                \* it exists, as sent, before the handler is called with it
    handler,    \* per call: what the router handed the request to
    request,    \* per call: the decoder's result
    received,   \* per call: the request value the endpoint was invoked with
    response,   \* per call: the endpoint's response value
    endpointErr,\* per call: the error the endpoint returned
    err,        \* per call: the error on its way to the error encoder
    w,          \* per call: the http.ResponseWriter
    calls       \* per call: how often each function ran and how much it wrote

vars == <<routes, pc, req, handler, request, received, response, endpointErr, err, w, calls>>

\* an *http.Request
Request(m, p, b, v) == [method |-> m, path |-> p, body |-> b, vars |-> v]

\* no request: the call is not used
NoReq == Request("", <<>>, "", NoVars)

NoCalls ==
    [decode |-> 0, opEndpoint |-> 0, healthEndpoint |-> 0, metrics |-> 0,
     encode |-> 0, encodeError |-> 0, errorHandler |-> 0,
     encodeWrote |-> 0, encodeErrorWrote |-> 0]

\* the handler MakeHttpHandler returned, and the requests r about to be served
InitState(r) ==
    /\ routes = MakeHttpHandler
    /\ pc = [c \in Calls |-> "idle"]
    /\ req = r
    /\ handler = [c \in Calls |-> "none"]
    /\ request = [c \in Calls |-> NoRequest]
    /\ received = [c \in Calls |-> NoRequest]
    /\ response = [c \in Calls |-> NoValue]
    /\ endpointErr = [c \in Calls |-> NoError]
    /\ err = [c \in Calls |-> NoError]
    /\ w = [c \in Calls |-> NewWriter]
    /\ calls = [c \in Calls |-> NoCalls]

\* ----------------------------------------------------------------- actions
\* mux Router.ServeHTTP on a new request: a path that cleanPath changes is
\* answered with a redirect to the clean path; otherwise the routes are
\* matched and the request is handed to the matching handler, to the
\* method-not-allowed handler or to the not-found handler
RouterServeHTTP(c) ==
    /\ pc[c] = "idle"
    /\ req[c] # NoReq
    /\ LET m  == req[c].method
           p  == req[c].path
           cp == cleanPath(p)
           mt == RouterMatch(routes, m, p)
           h  == IF cp # p THEN "redirect" ELSE mt.handler
       IN  /\ handler' = [handler EXCEPT ![c] = h]
           /\ req' = [req EXCEPT ![c].vars =
                        IF h \in {"op", "health", "metrics"} THEN mt.vars ELSE @]
           /\ pc' = [pc EXCEPT ![c] = IF h \in {"op", "health"} THEN "decode" ELSE "done"]
           /\ w' = [w EXCEPT ![c] =
                        CASE h = "redirect" -> Redirect(NewWriter, cp)
                          [] h = "metrics" -> MetricsHandler(NewWriter)
                          [] h = "methodNotAllowed" -> MethodNotAllowed(NewWriter)
                          [] h = "notFound" -> NotFound(NewWriter)
                          [] OTHER -> NewWriter]
           /\ calls' = [calls EXCEPT ![c].metrics = IF h = "metrics" THEN @ + 1 ELSE @]
    /\ UNCHANGED <<routes, request, received, response, endpointErr, err>>

\* one of the two go-kit servers called with a request directly, the route
\* variables being whatever the request carries
HandlerServeHTTP(c, h) ==
    /\ pc[c] = "idle"
    /\ req[c] # NoReq
    /\ handler' = [handler EXCEPT ![c] = h]
    /\ pc' = [pc EXCEPT ![c] = "decode"]
    /\ UNCHANGED <<routes, req, request, received, response, endpointErr, err, w, calls>>

\* the server going on to the next step whatever the step returned
NextStepIgnoringError(e, next) == next

\* kithttp.Server.ServeHTTP after each of its steps, as MakeHttpHandler sets
\* it up (ServerErrorEncoder(encodeError)): an error ends the pipeline in the
\* error encoder, no error goes on to the next step
NextStep(e, next) == IF e = NoError THEN next ELSE "encodeError"

\* Decode reading the route variables from one slot all calls share
DecodeShared(c) ==
    /\ pc[c] = "decode"
    /\ LET d == IF handler[c] = "op" THEN decodeStringRequest(req[1].vars)
                ELSE decodeHealthCheckRequest(req[c])
       IN  /\ request' = [request EXCEPT ![c] = d.request]
           /\ err' = [err EXCEPT ![c] = d.err]
           /\ pc' = [pc EXCEPT ![c] = NextStep(d.err, "dispatch")]
    /\ calls' = [calls EXCEPT ![c].decode = @ + 1]
    /\ UNCHANGED <<routes, req, handler, received, response, endpointErr, w>>

\* kithttp.Server.ServeHTTP, first step: the route's decoder; its error goes
\* to the error encoder and the endpoint is not called
Decode(c) ==
    /\ pc[c] = "decode"
    /\ LET d == IF handler[c] = "op" THEN decodeStringRequest(req[c].vars)
                ELSE decodeHealthCheckRequest(req[c])
       IN  /\ request' = [request EXCEPT ![c] = d.request]
           /\ err' = [err EXCEPT ![c] = d.err]
           /\ pc' = [pc EXCEPT ![c] = NextStep(d.err, "dispatch")]
    /\ calls' = [calls EXCEPT ![c].decode = @ + 1]
    /\ UNCHANGED <<routes, req, handler, received, response, endpointErr, w>>

\* second step: the route's endpoint is called with the decoded request; its
\* error goes to the error encoder
Dispatch(c) ==
    /\ pc[c] = "dispatch"
    /\ \E out \in EndpointOutcomes :
          /\ response' = [response EXCEPT ![c] = out.response]
          /\ endpointErr' = [endpointErr EXCEPT ![c] = out.err]
          /\ err' = [err EXCEPT ![c] = out.err]
          /\ pc' = [pc EXCEPT ![c] = NextStep(out.err, "encode")]
    /\ received' = [received EXCEPT ![c] = request[c]]
    /\ calls' = [calls EXCEPT ![c].opEndpoint = IF handler[c] = "op" THEN @ + 1 ELSE @,
                              ![c].healthEndpoint = IF handler[c] = "health" THEN @ + 1 ELSE @]
    /\ UNCHANGED <<routes, req, handler, request, w>>

\* third step: encodeStringResponse; its error goes to the error encoder
EncodeResponse(c) ==
    /\ pc[c] = "encode"
    /\ LET e == encodeStringResponse(w[c], response[c])
       IN  /\ w' = [w EXCEPT ![c] = e.w]
           /\ err' = [err EXCEPT ![c] = e.err]
           /\ pc' = [pc EXCEPT ![c] = NextStep(e.err, "done")]
           /\ calls' = [calls EXCEPT ![c].encode = @ + 1,
                                     ![c].encodeWrote = @ + Len(e.w.body) - Len(w[c].body)]
    /\ UNCHANGED <<routes, req, handler, request, received, response, endpointErr>>

\* the failure branch of each step: the error handler logs the error, then
\* encodeError writes it, and ServeHTTP returns
EncodeError(c) ==
    /\ pc[c] = "encodeError"
    /\ LET w2 == encodeError(err[c], w[c])
       IN  /\ w' = [w EXCEPT ![c] = w2]
           /\ calls' = [calls EXCEPT ![c].encodeError = @ + 1,
                                     ![c].errorHandler = @ + 1,
                                     ![c].encodeErrorWrote = @ + Len(w2.body) - Len(w[c].body)]
    /\ pc' = [pc EXCEPT ![c] = "done"]
    /\ UNCHANGED <<routes, req, handler, request, received, response, endpointErr, err>>

\* ---------------------------------------------------------- specifications
\* one request through the router, every method, path and body
Init ==
    \E m \in Methods, n \in 0..MaxSegs, b \in Bodies :
        \E p \in Paths(n) :
            InitState([c \in Calls |-> IF c = 1 THEN Request(m, p, b, NoVars) ELSE NoReq])

Next ==
    \/ RouterServeHTTP(1)
    \/ Decode(1)
    \/ Dispatch(1)
    \/ EncodeResponse(1)
    \/ EncodeError(1)

Spec == Init /\ [][Next]_vars

\* one request handed to a go-kit server directly, with any route variables
InitHandler ==
    \E m \in Methods, v \in AnyVars, b \in Bodies :
        InitState([c \in Calls |-> IF c = 1 THEN Request(m, <<>>, b, v) ELSE NoReq])

NextHandler ==
    \/ \E h \in {"op", "health"} : HandlerServeHTTP(1, h)
    \/ Decode(1)
    \/ Dispatch(1)
    \/ EncodeResponse(1)
    \/ EncodeError(1)

SpecHandler == InitHandler /\ [][NextHandler]_vars

\* NumCalls requests through the router at once, their steps interleaved
InitConc ==
    \E r \in [Calls -> ConcRequests] :
        InitState([c \in Calls |-> Request(r[c][1], r[c][2], "", NoVars)])

NextConc ==
    \E c \in Calls :
        \/ RouterServeHTTP(c)
        \/ Decode(c)
        \/ Dispatch(c)
        \/ EncodeResponse(c)
        \/ EncodeError(c)

SpecConc == InitConc /\ [][NextConc]_vars

\* ------------------------------------------------- reading a response back
Invalid == [kind |-> "invalid", field |-> "", text |-> <<>>, b |-> FALSE]

UnescapeAtom(a) ==
    CASE a = "\\\""   -> QUOTE
      [] a = "\\\\"   -> BACKSLASH
      [] a = "\\n"    -> "\n"
      [] a = "\\r"    -> "\r"
      [] a = "\\t"    -> "\t"
      [] a = "\\u0001" -> SOH
      [] a = "\\u2028" -> LINE_SEP
      [] a = "\\u2029" -> PARA_SEP
      [] a = "\\ufffd" -> REPLACEMENT
      [] a = "\\u003c" -> "<"
      [] a = "\\u003e" -> ">"
      [] a = "\\u0026" -> "&"
      [] OTHER        -> a

\* the value a client parses out of a body: null, or one JSON object with one
\* member, a string or a boolean, optionally followed by a newline; anything
\* else (a truncated document, two documents, an unescaped quote or control
\* character, a byte that is not UTF-8) is Invalid
JsonDecode(body) ==
    LET d == IF Len(body) > 0 /\ body[Len(body)] = "\n"
             THEN SubSeq(body, 1, Len(body) - 1) ELSE body
        n == Len(d)
    IN  IF d = <<"null">> THEN NoValue
        ELSE IF n < 7 THEN Invalid
        ELSE IF d[1] # "{" \/ d[2] # QUOTE \/ d[4] # QUOTE \/ d[5] # ":" \/ d[n] # "}"
        THEN Invalid
        ELSE IF n = 7
        THEN (IF d[6] \in {"true", "false"} THEN BoolValue(d[3], d[6] = "true") ELSE Invalid)
        ELSE IF d[6] = QUOTE /\ d[n - 1] = QUOTE
                /\ \A i \in 7..(n - 2) :
                      d[i] \notin {QUOTE, BACKSLASH, "\n", "\r", "\t", SOH, INVALID_BYTE}
        THEN ObjectValue(d[3], [i \in 1..(n - 8) |-> UnescapeAtom(d[i + 6])])
        ELSE Invalid

\* a Go string as a JSON string can carry it: JSON text is UTF-8, so a byte
\* that is not valid UTF-8 reads back as U+FFFD
ValidUTF8(s) == [i \in 1..Len(s) |-> IF s[i] = INVALID_BYTE THEN REPLACEMENT ELSE s[i]]

\* the value a client reads from the JSON serialization of v
Read(v) == [v EXCEPT !.text = ValidUTF8(v.text)]

KitServed(c) == handler[c] \in {"op", "health"}

EndpointCalls(c) == calls[c].opEndpoint + calls[c].healthEndpoint

\* the route variables of call c that decodeStringRequest looks for and does
\* not find
MissingVars(c) == VarNames \ DOMAIN req[c].vars

\* the error envelope {"error": msg} sent with the server-error status
IsErrorEnvelope(x, msg) ==
    /\ x.status = StatusInternalServerError
    /\ x.sent.ct = "application/json; charset=utf-8"
    /\ JsonDecode(x.body) = ObjectValue("error", ValidUTF8(msg))

\* the success response carrying value v
IsSuccessOf(x, v) ==
    /\ x.status = StatusOK
    /\ x.sent.ct = "application/json;charset=utf-8"
    /\ JsonDecode(x.body) = Read(v)

\* C1: when one of the route variables type, a, b is missing from the request
\* handed to the operation handler, decodeStringRequest returns
\* ErrorBadRequest, no endpoint and no success encoder runs, and the next and
\* only step is the error encoder.
C1_MissingVarIsBadRequest ==
    \A c \in Calls :
        (handler[c] = "op" /\ pc[c] # "decode" /\ MissingVars(c) # {}) =>
            /\ err[c] = ErrorBadRequest
            /\ request[c] = NoRequest
            /\ EndpointCalls(c) = 0
            /\ calls[c].encode = 0
            /\ pc[c] \in {"encodeError", "done"}
            /\ pc[c] = "done" =>
                  /\ calls[c].encodeError = 1
                  /\ IsErrorEnvelope(w[c], ErrorBadRequest.msg)

C1_Witness ==
    \E c \in Calls :
        /\ handler[c] = "op" /\ pc[c] = "done"
        /\ MissingVars(c) = {"b"}
        /\ calls[c].decode = 1 /\ calls[c].encodeError = 1
        /\ EndpointCalls(c) = 0

\* C2: every error that reaches encodeError (the decoder's ErrorBadRequest, an
\* endpoint's error, the success encoder's error) is answered with status
\* 500, never a 4xx, and a body that is the JSON object {"error": <the error's
\* text>}: it parses back to that text (bytes of it that are not UTF-8, which
\* JSON cannot carry, read back as U+FFFD).
C2_ErrorsAre500 ==
    \A c \in Calls :
        (KitServed(c) /\ calls[c].encodeError > 0) =>
            /\ w[c].status = StatusInternalServerError
            /\ ~(w[c].status \in 400..499)
            /\ IsErrorEnvelope(w[c], err[c].msg)
            /\ err[c] # NoError

C2_Witness ==
    \E c \in Calls :
        /\ handler[c] = "op" /\ pc[c] = "done"
        /\ err[c] = ErrorBadRequest /\ calls[c].decode = 1 /\ EndpointCalls(c) = 0
        /\ calls[c].encodeError = 1
        /\ w[c].status = StatusInternalServerError

\* C3: a request the router matched to POST /op/{type}/{a}/{b} is decoded
\* without error into a StringRequest whose RequestType, A and B are the
\* second, third and fourth path segments, unchanged and in that order, and
\* that value is what the operation endpoint is invoked with.
C3_DecodeVerbatim ==
    \A c \in Calls :
        (handler[c] = "op" /\ pc[c] # "decode") =>
            /\ req[c].method = "POST" /\ Len(req[c].path) = 4
            /\ \A i \in 2..4 : req[c].path[i] # ""
            /\ request[c] =
                  [type |-> "StringRequest", RequestType |-> req[c].path[2],
                   A |-> req[c].path[3], B |-> req[c].path[4]]
            /\ pc[c] # "dispatch" =>
                  /\ calls[c].opEndpoint = 1
                  /\ received[c] = request[c]

C3_Witness ==
    \E c \in Calls :
        /\ handler[c] = "op" /\ pc[c] = "done" /\ calls[c].opEndpoint = 1
        /\ req[c].path = <<"op", "add", "3", "4">>
        /\ received[c].RequestType = "add"
        /\ received[c].A = "3"
        /\ received[c].B = "4"

\* the endpoint of call c returned a value and no error
EndpointSucceeded(c) == EndpointCalls(c) = 1 /\ endpointErr[c] = NoError

\* C4 as claimed: whenever decode and dispatch both succeed, the response is
\* the success encoder's: status 200, content type
\* application/json;charset=utf-8, body the JSON of the endpoint's value.
C4_Original ==
    \A c \in Calls :
        (KitServed(c) /\ pc[c] = "done" /\ EndpointSucceeded(c)) =>
            IsSuccessOf(w[c], response[c])

\* C4, amended: whenever decode and dispatch both succeed and the endpoint's
\* value is one encoding/json can serialize, the response is written by
\* encodeStringResponse alone: status 200 by the first write (no WriteHeader
\* call), content type application/json;charset=utf-8, body the JSON of
\* exactly that value (null for a nil response; a string's bytes that are
\* not UTF-8 read back as U+FFFD).  For a value it cannot serialize the success encoder
\* writes nothing and the response is the error envelope with status 500.
C4_SuccessEncoding ==
    \A c \in Calls :
        (KitServed(c) /\ pc[c] = "done" /\ EndpointSucceeded(c)) =>
            IF response[c].kind # "chan"
            THEN /\ IsSuccessOf(w[c], response[c])
                 /\ calls[c].encode = 1 /\ calls[c].encodeError = 0
                 /\ calls[c].encodeWrote = Len(w[c].body)
            ELSE /\ IsErrorEnvelope(w[c], UnsupportedTypeError.msg)
                 /\ calls[c].encode = 1 /\ calls[c].encodeWrote = 0

C4_Witness ==
    \E c \in Calls :
        /\ handler[c] = "op" /\ pc[c] = "done"
        /\ endpointErr[c] = NoError
        /\ response[c] = ObjectValue("result", <<"{x}", "\n", "\t", "\r", SOH, LINE_SEP,
                                                 PARA_SEP, INVALID_BYTE, REPLACEMENT>>)
        /\ w[c].status = StatusOK
        /\ w[c].body = <<"{", QUOTE, "result", QUOTE, ":", QUOTE,
                         "{x}", "\\n", "\\t", "\\r", "\\u0001", "\\u2028", "\\u2029",
                         "\\ufffd", REPLACEMENT, QUOTE, "}", "\n">>
        /\ calls[c].encode = 1

\* C5: when the endpoint returns an error it has been invoked exactly once,
\* the success encoder is never invoked, and the response is the error
\* encoder's: status 500 and a body carrying that error's message.
C5_EndpointErrorOnce ==
    \A c \in Calls :
        (KitServed(c) /\ EndpointCalls(c) > 0 /\ endpointErr[c] # NoError) =>
            /\ EndpointCalls(c) = 1
            /\ err[c] = endpointErr[c]
            /\ calls[c].encode = 0 /\ calls[c].encodeWrote = 0
            /\ pc[c] \in {"encodeError", "done"}
            /\ pc[c] = "done" =>
                  /\ calls[c].encodeError = 1
                  /\ IsErrorEnvelope(w[c], err[c].msg)

C5_Witness ==
    \E c \in Calls :
        /\ handler[c] = "op" /\ pc[c] = "done" /\ calls[c].opEndpoint = 1
        /\ err[c].msg = <<"division by zero">>
        /\ w[c].status = StatusInternalServerError
        /\ w[c].body = <<"{", QUOTE, "error", QUOTE, ":", QUOTE, "division by zero",
                         QUOTE, "}", "\n">>

\* C6: in every run of the pipeline at most one of the two encoders writes
\* body bytes; each encoder runs at most once; a finished call has exactly
\* one writer, one status, and a body that is one complete JSON document; a
\* value that serializes is written by the success encoder alone.  This
\* includes the run where the success encoder fails to serialize the value:
\* it has written nothing when the error encoder writes.
C6_OneCompleteBody ==
    \A c \in Calls :
        KitServed(c) =>
            /\ ~(calls[c].encodeWrote > 0 /\ calls[c].encodeErrorWrote > 0)
            /\ calls[c].encode <= 1 /\ calls[c].encodeError <= 1
            /\ pc[c] = "done" =>
                  /\ (calls[c].encodeWrote > 0) # (calls[c].encodeErrorWrote > 0)
                  /\ JsonDecode(w[c].body) # Invalid
                  /\ w[c].status = (IF calls[c].encodeWrote > 0 THEN StatusOK
                                    ELSE StatusInternalServerError)
                  /\ (EndpointSucceeded(c) /\ response[c].kind # "chan") =>
                        (calls[c].encode = 1 /\ calls[c].encodeError = 0)

C6_Witness ==
    \E c \in Calls :
        /\ KitServed(c) /\ pc[c] = "done"
        /\ response[c] = ChanValue
        /\ calls[c].encode = 1 /\ calls[c].encodeError = 1
        /\ calls[c].encodeWrote = 0 /\ calls[c].encodeErrorWrote > 0

\* the path has the shape /op/{type}/{a}/{b}: four segments, the first "op",
\* the other three not empty
IsOpPath(p) == Len(p) = 4 /\ p[1] = "op" /\ \A i \in 2..4 : p[i] # ""

HasDotSegment(p) == \E i \in 1..Len(p) : p[i] \in {".", ".."}

RouteTableShape ==
    /\ Len(routes) = 3
    /\ {routes[i].handler : i \in 1..Len(routes)} = {"op", "metrics", "health"}

\* C7 as claimed: three routes; the operation endpoint is reached only by
\* POST /op/{type}/{a}/{b}, the health endpoint only by GET /health, the
\* metrics handler only by GET /metrics; nothing else reaches any of them.
C7_Original ==
    /\ RouteTableShape
    /\ \A c \in Calls :
          /\ handler[c] = "op" => (req[c].method = "POST" /\ IsOpPath(req[c].path))
          /\ handler[c] = "health" => (req[c].method = "GET" /\ req[c].path = <<"health">>)
          /\ handler[c] = "metrics" => (req[c].method = "GET" /\ req[c].path = <<"metrics">>)

\* C7, amended: three routes; the operation endpoint is reached only by
\* POST /op/{type}/{a}/{b} and the health endpoint only by GET /health, but
\* the metrics route has no method matcher: the metrics handler is reached by
\* a request to /metrics with any method (GET, POST, PUT, ...) and by no other
\* path.  Every other (method, path) reaches none of the three.
C7_Routes ==
    /\ RouteTableShape
    /\ \A c \in Calls :
          /\ handler[c] = "op" => (req[c].method = "POST" /\ IsOpPath(req[c].path))
          /\ handler[c] = "health" => (req[c].method = "GET" /\ req[c].path = <<"health">>)
          /\ handler[c] = "metrics" => req[c].path = <<"metrics">>
          /\ calls[c].opEndpoint > 0 => handler[c] = "op"
          /\ calls[c].healthEndpoint > 0 => handler[c] = "health"
          /\ calls[c].metrics > 0 => handler[c] = "metrics"
          /\ pc[c] # "idle" =>
                /\ (req[c].method = "POST" /\ IsOpPath(req[c].path)
                        /\ ~HasDotSegment(req[c].path)) => handler[c] = "op"
                /\ (req[c].method = "GET" /\ req[c].path = <<"health">>) =>
                        handler[c] = "health"
                /\ req[c].path = <<"metrics">> =>
                        (handler[c] = "metrics" /\ calls[c].metrics = 1)

C7_Witness ==
    \E c \in Calls :
        /\ pc[c] = "done" /\ handler[c] = "metrics" /\ calls[c].metrics = 1
        /\ req[c].method = "POST" /\ req[c].path = <<"metrics">>
        /\ w[c].status = StatusOK

\* C8: a GET /health request is handed to the health server, whose decoder
\* returns the empty HealthRequest whatever the request carries; so the health
\* endpoint is always invoked, with that marker, an error of a health call is
\* never the decoder's, and a healthy result is sent by the success encoder
\* with status 200.
C8_HealthAlwaysDecodes ==
    \A c \in Calls :
        /\ (pc[c] # "idle" /\ req[c].method = "GET" /\ req[c].path = <<"health">>) =>
                handler[c] = "health"
        /\ (handler[c] = "health" /\ pc[c] # "decode") =>
              /\ request[c] = HealthRequest
              /\ calls[c].decode = 1
              /\ pc[c] # "dispatch" =>
                    /\ calls[c].healthEndpoint = 1
                    /\ received[c] = HealthRequest
              /\ (pc[c] = "done" /\ endpointErr[c] = NoError
                        /\ response[c] = BoolValue("status", TRUE)) =>
                    /\ IsSuccessOf(w[c], response[c])
                    /\ calls[c].encode = 1 /\ calls[c].encodeError = 0

C8_Witness ==
    \E c \in Calls :
        /\ handler[c] = "health" /\ pc[c] = "done"
        /\ req[c].method = "GET" /\ req[c].path = <<"health">> /\ req[c].body = "junk"
        /\ response[c] = BoolValue("status", TRUE)
        /\ w[c].status = StatusOK
        /\ w[c].body = <<"{", QUOTE, "status", QUOTE, ":", "true", "}", "\n">>

HasEmptySegment(p) == \E i \in 1..Len(p) : p[i] = ""

HasInnerEmptySegment(p) == \E i \in 1..(Len(p) - 1) : p[i] = ""

\* C9 as claimed: a POST whose path has an empty segment is answered
\* not-found, and neither the decoder nor the operation endpoint runs.
C9_Original ==
    \A c \in Calls :
        (pc[c] # "idle" /\ req[c].method = "POST" /\ HasEmptySegment(req[c].path)) =>
            /\ w[c].status = StatusNotFound
            /\ calls[c].decode = 0 /\ calls[c].opEndpoint = 0

\* C9, amended: a POST whose path has an empty segment never reaches the
\* decoder or an endpoint.  When the empty segment is not the last one, as in
\* POST /op//4, the router answers 301 Moved Permanently with Location the
\* cleaned path (/op/4), not 404; not-found is the answer only when the path
\* is already clean, that is when just the last segment is empty.
C9_EmptySegment ==
    \A c \in Calls :
        (pc[c] # "idle" /\ req[c].method = "POST" /\ HasEmptySegment(req[c].path)) =>
            /\ pc[c] = "done"
            /\ calls[c].decode = 0 /\ EndpointCalls(c) = 0 /\ calls[c].metrics = 0
            /\ w[c].status \in {StatusMovedPermanently, StatusNotFound}
            /\ HasInnerEmptySegment(req[c].path) =>
                  /\ w[c].status = StatusMovedPermanently
                  /\ ~HasInnerEmptySegment(w[c].sent.loc)
                  /\ ~HasDotSegment(w[c].sent.loc)
            /\ (~HasInnerEmptySegment(req[c].path) /\ ~HasDotSegment(req[c].path)) =>
                  w[c].status = StatusNotFound
            /\ req[c].path = <<"op", "", "4">> => w[c].sent.loc = <<"op", "4">>

C9_Witness ==
    \E c \in Calls :
        /\ pc[c] = "done" /\ req[c].method = "POST"
        /\ req[c].path = <<"op", "", "4">>
        /\ w[c].status = StatusMovedPermanently
        /\ w[c].sent.loc = <<"op", "4">>
        /\ calls[c].decode = 0

\* the response to call c's request when it is handled alone and its endpoint
\* returns what it returned to call c
AloneDecode(c) ==
    LET mt == RouterMatch(MakeHttpHandler, req[c].method, req[c].path)
    IN  IF mt.handler = "op" THEN decodeStringRequest(mt.vars)
        ELSE decodeHealthCheckRequest(req[c])

AloneResponse(c) ==
    LET cp == cleanPath(req[c].path)
        mt == RouterMatch(MakeHttpHandler, req[c].method, req[c].path)
        h  == IF cp # req[c].path THEN "redirect" ELSE mt.handler
        e  == encodeStringResponse(NewWriter, response[c])
    IN  CASE h = "redirect" -> Redirect(NewWriter, cp)
          [] h = "metrics" -> MetricsHandler(NewWriter)
          [] h = "methodNotAllowed" -> MethodNotAllowed(NewWriter)
          [] h = "notFound" -> NotFound(NewWriter)
          [] OTHER ->
                IF AloneDecode(c).err # NoError THEN encodeError(AloneDecode(c).err, NewWriter)
                ELSE IF endpointErr[c] # NoError THEN encodeError(endpointErr[c], NewWriter)
                ELSE IF e.err = NoError THEN e.w
                ELSE encodeError(e.err, e.w)

\* everything call c owns
LocalState(c) ==
    <<pc[c], req[c], handler[c], request[c], received[c], response[c], endpointErr[c],
      err[c], w[c],
      calls[c]>>

Isolated ==
    \A c \in Calls :
        /\ (KitServed(c) /\ pc[c] # "decode") =>
              /\ request[c] = AloneDecode(c).request
              /\ pc[c] = "done" => EndpointCalls(c) = 1
        /\ pc[c] = "done" => w[c] = AloneResponse(c)

\* C10: with any number of requests in flight and their steps interleaved in
\* any order, a step of one call changes nothing another call owns, the route
\* table never changes, each call's decoded request is the one decoded from
\* its own request, and each finished call's response (status, headers,
\* body) is the response its request gets when handled alone with the same
\* endpoint result.
C10_NoCrossRequestState ==
    /\ []Isolated
    /\ [][/\ routes' = routes
          /\ \A c \in Calls : pc'[c] = pc[c] => LocalState(c)' = LocalState(c)]_vars

C10_Witness ==
    \E c \in Calls, d \in Calls :
        /\ c # d
        /\ handler[c] = "op" /\ pc[c] = "done" /\ w[c].status = StatusOK
        /\ handler[d] = "op" /\ pc[d] \in {"dispatch", "encode"}
        /\ request[c] # request[d]
        /\ request[d].type = "StringRequest"

=============================================================================
